---- MODULE Spec2Model ----
(***************************************************************************)
(* A model of check_certs (src/check_certs/CheckCerts.py): one run of the  *)
(* certificate audit job, from reading the environment to the last publish.*)
(*                                                                         *)
(* Strings the code inspects (the flag values, daysThreshold, the domain   *)
(* names it pads) are sequences of one-character strings, so that the      *)
(* substring test, int() and the padding are computed.  Strings the code   *)
(* only passes along (the subjects, the fixed parts of a message) are     *)
(* TLA+ strings.                                                           *)
(* Timestamps are integers counted in ticks, TicksPerDay ticks to a day.   *)
(***************************************************************************)
EXTENDS Integers, Sequences, FiniteSets, TLC

VARIABLES
    env,                \* os.environ: the six settings, each Unset or a value
    clock,              \* the wall clock, in ticks
    pc,                 \* position of the run in check_certs
    error,              \* which CertCheckException ended the run, or "none"
    cause,              \* the exception that CertCheckException wraps
    region, days, do_audit, do_report, sns_audit_arn, sns_report_arn,
    cert_summaries,     \* CertificateSummaryList: the listed certificate ARNs
    cert_descriptions,  \* the describe_certificate responses, in call order
    now_tzaware,        \* the reference time of the run (0 until line 63 sets it)
    days_until_expiry,  \* the records {DomainName, DaysLeft}
    calls               \* every call made to the two services, in order

vars == <<env, clock, pc, error, cause, region, days, do_audit, do_report,
          sns_audit_arn, sns_report_arn, cert_summaries, cert_descriptions,
          now_tzaware, days_until_expiry, calls>>

locals == <<region, days, do_audit, do_report, sns_audit_arn, sns_report_arn>>
gathered == <<cert_summaries, cert_descriptions, now_tzaware, days_until_expiry>>

----------------------------------------------------------------------------
(* Bounds of the model *)

MaxCerts == 2
MaxClock == 1
TicksPerDay == 2

(* Program constants *)

PadWidth == 36

----------------------------------------------------------------------------
(* Values *)

\* Markers are one-element sequences whose element is longer than a character,
\* so none of them equals a string of the program.
Unset == <<"<unset>">>       \* the variable is not in os.environ
None == <<"<None>">>         \* Python's None
Unbound == <<"<unbound>">>   \* a local that no statement has assigned yet

Yes == <<"Y", "e", "s">>

\* the values the model gives a flag, besides leaving it unset
FlagValues == { Yes, <<"x", "Y", "e", "s">>, <<"y", "e", "s">> }

\* the values the model gives daysThreshold, besides leaving it unset
DaysValues == { <<"1">>, <<"-", "1">>, <<"x">> }

Domains == { <<"a">>, <<"b">> }
NotAfters == { -1, 2 * TicksPerDay - 1, 2 * TicksPerDay + 1 }

ArnOf(i) == <<"cert", i>>

----------------------------------------------------------------------------
(* os.environ.get(name, default=d) *)

Get(e, name, d) == IF e[name] = Unset THEN d ELSE e[name]

DefaultRegion == <<"u", "s", "-", "e", "a", "s", "t", "-", "1">>
DefaultDays == <<"3", "0">>
DefaultDoReport == <<"F", "a", "l", "s", "e">>

\* mutant of DefaultDoAudit: the audit is on by default
DefaultDoAuditYes == <<"Y", "e", "s">>

DefaultDoAudit == <<"T", "r", "u", "e">>

BadRegion == <<"u", "s", " ", "1">>
AuditArn == <<"a", "r", "n", ":", "A">>
ReportArn == <<"a", "r", "n", ":", "R">>

(* sub in s, for Python strings *)
Contains(sub, s) ==
    \E k \in 0..(Len(s) - Len(sub)) :
        \A j \in 1..Len(sub) : s[k + j] = sub[j]

\* mutant of Enabled: the test ignores the case of the first letter
EnabledAnyCase(flag) == Contains(Yes, flag) \/ Contains(<<"y", "e", "s">>, flag)

Enabled(flag) == Contains(Yes, flag)

\* mutant of EnvVars: the report topic is not appended
EnvVarsAuditOnly(e) ==
    <<Get(e, "region", DefaultRegion), Get(e, "daysThreshold", DefaultDays)>>
    \o (IF Enabled(Get(e, "doAudit", DefaultDoAudit))
          THEN <<Get(e, "snsAuditArn", None)>> ELSE <<>>)

(* env_vars as built by lines 36-42 *)
EnvVars(e) ==
    <<Get(e, "region", DefaultRegion), Get(e, "daysThreshold", DefaultDays)>>
    \o (IF Enabled(Get(e, "doAudit", DefaultDoAudit))
          THEN <<Get(e, "snsAuditArn", None)>> ELSE <<>>)
    \o (IF Enabled(Get(e, "doReport", DefaultDoReport))
          THEN <<Get(e, "snsReportArn", None)>> ELSE <<>>)

In(x, s) == \E i \in 1..Len(s) : s[i] = x

----------------------------------------------------------------------------
(* boto3.client(service, region_name=region): botocore refuses a region    *)
(* name that is not made of letters, digits and hyphens; the exception is  *)
(* raised inside the caller's try block.                                   *)

RegionChars ==
    { "a", "b", "c", "d", "e", "f", "g", "h", "i", "j", "k", "l", "m", "n",
      "o", "p", "q", "r", "s", "t", "u", "v", "w", "x", "y", "z", "-",
      "0", "1", "2", "3", "4", "5", "6", "7", "8", "9" }

ClientOk(r) == Len(r) > 0 /\ \A i \in 1..Len(r) : r[i] \in RegionChars

----------------------------------------------------------------------------
(* int(days): surrounding blanks are stripped, one sign is allowed, the    *)
(* rest must be digits (single underscores between digits are skipped).    *)

DigitChars == <<"0", "1", "2", "3", "4", "5", "6", "7", "8", "9">>
IsDigit(c) == \E d \in 1..10 : DigitChars[d] = c
DigitVal(c) == (CHOOSE d \in 1..10 : DigitChars[d] = c) - 1

RECURSIVE Strip(_)
Strip(s) ==
    IF s = <<>> THEN s
    ELSE IF Head(s) = " " THEN Strip(Tail(s))
    ELSE IF s[Len(s)] = " " THEN Strip(SubSeq(s, 1, Len(s) - 1))
    ELSE s

RECURSIVE DigitsValue(_, _)
DigitsValue(s, acc) ==
    IF s = <<>> THEN acc
    ELSE IF Head(s) = "_" THEN DigitsValue(Tail(s), acc)
    ELSE DigitsValue(Tail(s), 10 * acc + DigitVal(Head(s)))

WellFormedDigits(s) ==
    /\ Len(s) > 0
    /\ IsDigit(s[1]) /\ IsDigit(s[Len(s)])
    /\ \A i \in 1..Len(s) : IsDigit(s[i]) \/ s[i] = "_"
    /\ \A i \in 1..(Len(s) - 1) : ~(s[i] = "_" /\ s[i + 1] = "_")

\* mutant of ParseInt: a malformed number counts as 0
ParseIntLenient(str) ==
    LET t == Strip(str)
        signed == t # <<>> /\ Head(t) \in {"+", "-"}
        body == IF signed THEN Tail(t) ELSE t
    IN  IF WellFormedDigits(body)
          THEN [ok |-> TRUE,
                val |-> IF signed /\ Head(t) = "-"
                          THEN 0 - DigitsValue(body, 0)
                          ELSE DigitsValue(body, 0)]
          ELSE [ok |-> TRUE, val |-> 0]

\* [ok |-> FALSE] stands for the ValueError int() raises
ParseInt(str) ==
    LET t == Strip(str)
        signed == t # <<>> /\ Head(t) \in {"+", "-"}
        body == IF signed THEN Tail(t) ELSE t
    IN  IF WellFormedDigits(body)
          THEN [ok |-> TRUE,
                val |-> IF signed /\ Head(t) = "-"
                          THEN 0 - DigitsValue(body, 0)
                          ELSE DigitsValue(body, 0)]
          ELSE [ok |-> FALSE, val |-> 0]

----------------------------------------------------------------------------
(* (not_after - now).days: a timedelta is normalised so that its seconds   *)
(* are never negative, which makes .days the floor of the difference.      *)

\* mutant of DaysBetween: the difference is rounded toward zero
DaysTruncated(not_after, now) ==
    IF not_after >= now
      THEN (not_after - now) \div TicksPerDay
      ELSE 0 - ((now - not_after) \div TicksPerDay)

DaysBetween(not_after, now) == (not_after - now) \div TicksPerDay

(* "{: <36}".format(name): left-aligned, filled with blanks up to 36 *)
PadRight(name) ==
    IF Len(name) >= PadWidth THEN name
    ELSE name \o [i \in 1..(PadWidth - Len(name)) |-> " "]

\* mutant of FewerDaysThanThresh: the comparison is strict
FewerDaysStrictly(records, thresh) ==
    SelectSeq(records, LAMBDA x : x.DaysLeft < thresh)

(* the comprehension of line 79; int(days) is evaluated once per record *)
FewerDaysThanThresh(records, thresh) ==
    SelectSeq(records, LAMBDA x : x.DaysLeft <= thresh)

AuditLine(x) == <<PadRight(x.DomainName), " is valid for ", x.DaysLeft, " more days">>
ReportLine(x) == <<PadRight(x.DomainName), ": valid for ", x.DaysLeft, " days.">>

\* a message is its header and the lines that "\n".join puts after it
AuditMessage(d, selected) ==
    [header |-> <<"The following certificates will expire within ", d, " days:">>,
     lines |-> [i \in 1..Len(selected) |-> AuditLine(selected[i])]]

ReportMessage(records) ==
    [header |-> <<"Certificate expiration report:">>,
     lines |-> [i \in 1..Len(records) |-> ReportLine(records[i])]]

AuditSubject == "Warning: Certificate Expiration"
ReportSubject == "Notice: Certificate Expiration Report"

(* the calls the run makes to the two services; the log keeps each call    *)
(* with whether it returned (ok) or raised                                 *)
Called(call, ok) == [call |-> call, ok |-> ok]
ListCall == [op |-> "list_certificates", statuses |-> <<"ISSUED">>]
DescribeCall(arn) == [op |-> "describe_certificate", arn |-> arn]
(* send_notification: one sns_client.publish *)
PublishCall(message, topic, subject, r) ==
    [op |-> "publish", topic |-> topic, message |-> message,
     subject |-> subject, region |-> r]

----------------------------------------------------------------------------
(* The run *)

EnvValues(name) ==
    CASE name = "region" -> {Unset, BadRegion}
      [] name = "daysThreshold" -> {Unset} \cup DaysValues
      [] name = "doAudit" -> {Unset} \cup FlagValues
      [] name = "doReport" -> {Unset} \cup FlagValues
      [] name = "snsAuditArn" -> {Unset, AuditArn}
      [] name = "snsReportArn" -> {Unset, ReportArn}

EnvNames == {"region", "daysThreshold", "doAudit", "doReport", "snsAuditArn", "snsReportArn"}

Init ==
    /\ env \in { e \in [EnvNames -> UNION { EnvValues(n) : n \in EnvNames }] :
                   \A n \in EnvNames : e[n] \in EnvValues(n) }
    /\ clock = 0
    /\ pc = "config"
    /\ error = "none"
    /\ cause = "none"
    /\ region = Unbound /\ days = Unbound
    /\ do_audit = Unbound /\ do_report = Unbound
    /\ sns_audit_arn = Unbound /\ sns_report_arn = Unbound
    /\ cert_summaries = <<>>
    /\ cert_descriptions = <<>>
    /\ now_tzaware = 0
    /\ days_until_expiry = <<>>
    /\ calls = <<>>

Raise(kind, why) ==
    /\ pc' = "failed"
    /\ error' = kind
    /\ cause' = why

(* lines 31-47: read the settings; a None among env_vars is the            *)
(* configuration error                                                     *)
Configure ==
    /\ pc = "config"
    /\ region' = Get(env, "region", DefaultRegion)
    /\ days' = Get(env, "daysThreshold", DefaultDays)
    /\ do_audit' = Get(env, "doAudit", DefaultDoAudit)
    /\ do_report' = Get(env, "doReport", DefaultDoReport)
    /\ sns_audit_arn' = IF Enabled(do_audit')
                          THEN Get(env, "snsAuditArn", None) ELSE Unbound
    /\ sns_report_arn' = IF Enabled(do_report')
                           THEN Get(env, "snsReportArn", None) ELSE Unbound
    /\ IF In(None, EnvVars(env))
         THEN Raise("configuration", "Exception")
         ELSE pc' = "list" /\ UNCHANGED <<error, cause>>
    /\ UNCHANGED <<env, clock, gathered, calls>>

\* mutant of ListCertificates: a failed listing is taken for an empty one
ListCertificatesSwallow ==
    /\ pc = "list"
    /\ \/ /\ ~ClientOk(region)
          /\ Raise("listing", "InvalidRegionError")
          /\ UNCHANGED <<cert_summaries, calls>>
       \/ /\ ClientOk(region)
          /\ \/ /\ calls' = Append(calls, Called(ListCall, FALSE))
                /\ cert_summaries' = <<>>
                /\ pc' = "now"
                /\ UNCHANGED <<error, cause>>
             \/ \E n \in 0..MaxCerts :
                    /\ calls' = Append(calls, Called(ListCall, TRUE))
                    /\ cert_summaries' = [i \in 1..n |-> ArnOf(i)]
                    /\ pc' = IF n = 0 THEN "now" ELSE "describe"
                    /\ UNCHANGED <<error, cause>>
    /\ UNCHANGED <<env, clock, locals, cert_descriptions, now_tzaware,
                   days_until_expiry>>

(* lines 50-53: the acm client, then list_certificates(ISSUED) *)
ListCertificates ==
    /\ pc = "list"
    /\ \/ /\ ~ClientOk(region)
          /\ Raise("listing", "InvalidRegionError")
          /\ UNCHANGED <<cert_summaries, calls>>
       \/ /\ ClientOk(region)
          /\ \/ /\ calls' = Append(calls, Called(ListCall, FALSE))
                /\ Raise("listing", "ClientError")
                /\ UNCHANGED cert_summaries
             \/ \E n \in 0..MaxCerts :
                    /\ calls' = Append(calls, Called(ListCall, TRUE))
                    /\ cert_summaries' = [i \in 1..n |-> ArnOf(i)]
                    /\ pc' = IF n = 0 THEN "now" ELSE "describe"
                    /\ UNCHANGED <<error, cause>>
    /\ UNCHANGED <<env, clock, locals, cert_descriptions, now_tzaware,
                   days_until_expiry>>

\* mutant of SummaryAt: the summaries are taken from the end
SummaryFromEnd(summaries, i) == summaries[Len(summaries) - i + 1]

(* line 56: the for loop takes the summaries in list order *)
SummaryAt(summaries, i) == summaries[i]

(* lines 56-61: one describe_certificate per summary *)
DescribeCertificate ==
    /\ pc = "describe"
    /\ LET i == Len(cert_descriptions) + 1
           summary == SummaryAt(cert_summaries, i)
       IN
        /\ \/ /\ calls' = Append(calls, Called(DescribeCall(summary), FALSE))
              /\ Raise("listing", "ClientError")
              /\ UNCHANGED cert_descriptions
           \/ \E d \in Domains, t \in NotAfters :
                /\ calls' = Append(calls, Called(DescribeCall(summary), TRUE))
                /\ cert_descriptions' =
                     Append(cert_descriptions,
                            [CertificateArn |-> summary,
                             DomainName |-> d, NotAfter |-> t])
                /\ pc' = IF i = Len(cert_summaries) THEN "now" ELSE "describe"
                /\ UNCHANGED <<error, cause>>
    /\ UNCHANGED <<env, clock, locals, cert_summaries, now_tzaware,
                   days_until_expiry>>

(* line 63: the reference time is read once, after the last describe *)
ReadNow ==
    /\ pc = "now"
    /\ now_tzaware' = clock
    /\ pc' = IF cert_descriptions = <<>> THEN "audit" ELSE "calc"
    /\ UNCHANGED <<env, clock, error, cause, locals, cert_summaries,
                   cert_descriptions, days_until_expiry, calls>>

(* lines 65-71: one record per description *)
CalcExpiry ==
    /\ pc = "calc"
    /\ LET i == Len(days_until_expiry) + 1
           description == cert_descriptions[i]
       IN /\ days_until_expiry' =
               Append(days_until_expiry,
                      [DomainName |-> description.DomainName,
                       DaysLeft |-> DaysBetween(description.NotAfter, now_tzaware)])
          /\ pc' = IF i = Len(cert_descriptions) THEN "audit" ELSE "calc"
    /\ UNCHANGED <<env, clock, error, cause, locals, cert_summaries,
                   cert_descriptions, now_tzaware, calls>>

(* lines 77-92: the audit; an exception of the stage ends the run *)
Audit ==
    /\ pc = "audit"
    /\ IF ~Enabled(do_audit)
         THEN pc' = "report" /\ UNCHANGED <<error, cause, calls>>
       ELSE IF days_until_expiry # <<>> /\ ~ParseInt(days).ok
         THEN Raise("audit", "ValueError") /\ UNCHANGED calls
       ELSE LET fewer_days_than_thresh ==
                    FewerDaysThanThresh(days_until_expiry, ParseInt(days).val)
            IN IF Len(fewer_days_than_thresh) = 0
                 THEN pc' = "report" /\ UNCHANGED <<error, cause, calls>>
                 ELSE LET sent == PublishCall(
                                   AuditMessage(days, fewer_days_than_thresh),
                                   sns_audit_arn, AuditSubject, region)
                      IN \/ /\ calls' = Append(calls, Called(sent, FALSE))
                            /\ Raise("audit", "notification")
                         \/ /\ calls' = Append(calls, Called(sent, TRUE))
                            /\ pc' = "report"
                            /\ UNCHANGED <<error, cause>>
    /\ UNCHANGED <<env, clock, locals, gathered>>

(* lines 94-107: the report *)
Report ==
    /\ pc = "report"
    /\ IF ~Enabled(do_report)
         THEN pc' = "done" /\ UNCHANGED <<error, cause, calls>>
         ELSE LET sent == PublishCall(ReportMessage(days_until_expiry),
                                      sns_report_arn, ReportSubject, region)
              IN \/ /\ calls' = Append(calls, Called(sent, FALSE))
                    /\ Raise("report", "notification")
                 \/ /\ calls' = Append(calls, Called(sent, TRUE))
                    /\ pc' = "done"
                    /\ UNCHANGED <<error, cause>>
    /\ UNCHANGED <<env, clock, locals, gathered>>

(* time passes while the run is under way *)
Tick ==
    /\ pc \notin {"done", "failed"}
    /\ clock < MaxClock
    /\ clock' = clock + 1
    /\ UNCHANGED <<env, pc, error, cause, locals, gathered, calls>>

Next ==
    \/ Configure
    \/ ListCertificates
    \/ DescribeCertificate
    \/ ReadNow
    \/ CalcExpiry
    \/ Audit
    \/ Report
    \/ Tick

Spec == Init /\ [][Next]_vars

----------------------------------------------------------------------------
(* What the properties below observe.  They are stated over the            *)
(* environment and the call log, not over the operators of the run.        *)

Ended == pc \in {"done", "failed"}

\* the variable is set and its value has "Yes" in it
SaysYes(name) ==
    /\ env[name] # Unset
    /\ \E i \in 1..(Len(env[name]) - 2) :
          env[name][i] = "Y" /\ env[name][i + 1] = "e" /\ env[name][i + 2] = "s"

AuditOn == SaysYes("doAudit")
ReportOn == SaysYes("doReport")

TopicMissing ==
    \/ AuditOn /\ env["snsAuditArn"] = Unset
    \/ ReportOn /\ env["snsReportArn"] = Unset

Positions == 1..Len(calls)
IsList(i) == calls[i].call.op = "list_certificates"
IsDescribe(i) == calls[i].call.op = "describe_certificate"
IsPublish(i) == calls[i].call.op = "publish"
IsAuditPublish(i) == IsPublish(i) /\ calls[i].call.subject = AuditSubject
IsReportPublish(i) == IsPublish(i) /\ calls[i].call.subject = ReportSubject

Lists == { i \in Positions : IsList(i) }
Describes == { i \in Positions : IsDescribe(i) }
Publishes == { i \in Positions : IsPublish(i) }
AuditPublishes == { i \in Positions : IsAuditPublish(i) }
ReportPublishes == { i \in Positions : IsReportPublish(i) }

\* every certificate-authority call of the run has been made and has returned
ListingDone ==
    /\ Lists # {}
    /\ Cardinality(Describes) = Len(cert_summaries)
    /\ \A i \in Lists \cup Describes : calls[i].ok
    /\ pc \notin {"list", "describe"}

\* the stage has been passed, or has ended the run
AuditOver == pc \in {"report", "done"} \/ (pc = "failed" /\ error \in {"audit", "report"})

\* the run has a next statement to execute
CanStep ==
    ENABLED (Configure \/ ListCertificates \/ DescribeCertificate \/ ReadNow
             \/ CalcExpiry \/ Audit \/ Report)

Blanks(n) == [i \in 1..n |-> " "]

----------------------------------------------------------------------------
\* C1: when both paths are enabled and configuration and listing succeeded,
\* a run that ended with the audit error has still attempted the report
\* publish.
C1_ReportAttemptedAfterAuditFailure ==
    (Ended /\ AuditOn /\ ReportOn /\ ListingDone /\ error = "audit")
        => ReportPublishes # {}

\* C2: with an enabled path whose topic ARN is unset, the run makes no call
\* to either service and, once the settings are read, has failed with the
\* configuration error.
C2_MissingTopicFailsBeforeAnyCall ==
    TopicMissing =>
        /\ calls = <<>>
        /\ pc \in {"config", "failed"}
        /\ pc = "failed" => error = "configuration"

C2_Witness ==
    /\ ReportOn /\ env["snsReportArn"] = Unset
    /\ ~(AuditOn /\ env["snsAuditArn"] = Unset)
    /\ pc = "failed" /\ error = "configuration"

\* C3: when neither flag has "Yes" in it, the run never publishes, never
\* fails for a missing topic ARN, and ends in success unless listing failed,
\* whatever the records and the threshold.
C3_BothDisabledPublishesNothing ==
    (~AuditOn /\ ~ReportOn) =>
        /\ Publishes = {}
        /\ error \in {"none", "listing"}
        /\ Ended => (pc = "done" <=> error = "none")
        /\ ListingDone => error = "none"
        /\ ~Ended => CanStep

C3_Witness ==
    /\ ~AuditOn /\ ~ReportOn
    /\ env["doAudit"] # Unset /\ env["doReport"] # Unset
    /\ env["snsAuditArn"] = Unset /\ env["snsReportArn"] = Unset
    /\ env["daysThreshold"] = <<"x">>
    /\ pc = "done"
    /\ Len(days_until_expiry) = MaxCerts

\* the threshold of the run, and the records at or below it
C4_Threshold == ParseInt(Get(env, "daysThreshold", DefaultDays))

C4_Selected ==
    { i \in 1..Len(days_until_expiry) :
        days_until_expiry[i].DaysLeft <= C4_Threshold.val }

C4_LinesAreSelection(lines) ==
    /\ Len(lines) = Cardinality(C4_Selected)
    /\ \E f \in [1..Len(lines) -> C4_Selected] :
         /\ \A j, k \in 1..Len(lines) : j < k => f[j] < f[k]
         /\ \A k \in 1..Len(lines) :
              LET name == days_until_expiry[f[k]].DomainName IN
              /\ SubSeq(lines[k][1], 1, Len(name)) = name
              /\ SubSeq(lines[k][1], Len(name) + 1, Len(lines[k][1]))
                   = Blanks(PadWidth - Len(name))
              /\ lines[k][3] = days_until_expiry[f[k]].DaysLeft

\* C4: with audit enabled and listing succeeded, once the audit stage is
\* over the records selected are exactly those with DaysLeft <= threshold,
\* in listing order; an empty selection gives no audit publish and no audit
\* error, a non-empty one gives exactly one publish, to the audit topic, with
\* the warning subject and one line per selected record and no other line.
\* Raising the threshold never removes a record from the selection.  (The
\* threshold is int(daysThreshold); a value int() refuses with records
\* present is the case of C10.)
C4_AuditSelection ==
    (AuditOn /\ ListingDone /\ AuditOver
       /\ (C4_Threshold.ok \/ days_until_expiry = <<>>)) =>
        /\ C4_Selected = {} => (AuditPublishes = {} /\ error # "audit")
        /\ C4_Selected # {} =>
             /\ Cardinality(AuditPublishes) = 1
             /\ \A i \in AuditPublishes :
                  /\ calls[i].call.topic = env["snsAuditArn"]
                  /\ C4_LinesAreSelection(calls[i].call.message.lines)
        /\ \A t1, t2 \in (0 - 2)..3 :
             t1 <= t2 =>
               \A k \in 1..Len(FewerDaysThanThresh(days_until_expiry, t1)) :
                 In(FewerDaysThanThresh(days_until_expiry, t1)[k],
                    FewerDaysThanThresh(days_until_expiry, t2))

\* two records, the first exactly at the threshold and selected, the second
\* above it and left out
C4_Witness ==
    /\ AuditOn /\ AuditOver /\ C4_Threshold.ok
    /\ Len(days_until_expiry) = 2
    /\ days_until_expiry[1].DaysLeft = C4_Threshold.val
    /\ days_until_expiry[2].DaysLeft > C4_Threshold.val
    /\ Cardinality(AuditPublishes) = 1

\* C5: with report enabled and configuration and listing succeeded, a run
\* that has ended made exactly one report publish, to the report topic, with
\* the report subject and one line per record, whether or not audit is
\* enabled.
C5_ReportPublishedOnce ==
    (Ended /\ ReportOn /\ ListingDone) =>
        /\ Cardinality(ReportPublishes) = 1
        /\ \A i \in ReportPublishes :
             /\ calls[i].call.topic = env["snsReportArn"]
             /\ Len(calls[i].call.message.lines) = Len(days_until_expiry)

\* C6 as claimed: DaysLeft is the day difference with its fractional part
\* discarded (rounded toward zero), for expired certificates too.
C6_TruncatedTowardZero ==
    \A i \in 1..Len(days_until_expiry) :
        LET diff == cert_descriptions[i].NotAfter - now_tzaware
            d == days_until_expiry[i].DaysLeft
        IN  IF diff >= 0
              THEN d * TicksPerDay <= diff /\ diff < (d + 1) * TicksPerDay
              ELSE (d - 1) * TicksPerDay < diff /\ diff <= d * TicksPerDay

\* C6 amended: DaysLeft is the floor of the day difference between NotAfter
\* and the one reference time of the run (rounded toward minus infinity: an
\* expired certificate with a fraction of a day counts one day more expired),
\* and every record of the run is computed from that same reference time,
\* however much time passes during the run.
C6_FloorOfDifference ==
    /\ now_tzaware <= clock
    /\ Len(days_until_expiry) <= Len(cert_descriptions)
    /\ \A i \in 1..Len(days_until_expiry) :
        LET diff == cert_descriptions[i].NotAfter - now_tzaware
            d == days_until_expiry[i].DaysLeft
        IN  /\ d * TicksPerDay <= diff
            /\ diff < (d + 1) * TicksPerDay
            /\ days_until_expiry[i].DomainName = cert_descriptions[i].DomainName

\* an expired certificate whose difference is a fraction of a day, in a run
\* whose clock moved on after the reference time was read
C6_Witness ==
    /\ Len(days_until_expiry) = 2
    /\ now_tzaware < clock
    /\ \E i \in 1..2 :
         /\ (cert_descriptions[i].NotAfter - now_tzaware) < 0
         /\ (cert_descriptions[i].NotAfter - now_tzaware) % TicksPerDay # 0
         /\ days_until_expiry[i].DaysLeft = 0 - 1

\* C7: a list_certificates or describe_certificate call that raised is the
\* last call of the run: the run has failed with the listing error, the
\* remaining describes are not made, no record is computed and nothing is
\* published, also with both paths enabled.
C7_ListingFailureAborts ==
    /\ \A i \in Lists \cup Describes :
         ~calls[i].ok =>
            /\ i = Len(calls)
            /\ pc = "failed" /\ error = "listing"
    /\ error = "listing" =>
         /\ pc = "failed"
         /\ Publishes = {}
         /\ days_until_expiry = <<>>
         /\ ~CanStep

\* the first describe returned, the second raised, with both paths enabled
C7_Witness ==
    /\ AuditOn /\ ReportOn
    /\ Len(cert_summaries) = 2
    /\ Cardinality(Describes) = 2
    /\ calls[2].ok /\ ~calls[3].ok
    /\ error = "listing"

\* C8: a path is enabled exactly when its flag is set to a value with "Yes"
\* in it: only then is its topic ARN read and required, and only then can
\* its publish happen.  With doAudit and doReport both unset (the defaults
\* "True" and "False") no path is enabled, no topic ARN is required and the
\* run publishes nothing.
C8_EnabledIffYes ==
    /\ pc # "config" =>
         /\ (sns_audit_arn # Unbound) <=> AuditOn
         /\ (sns_report_arn # Unbound) <=> ReportOn
         /\ (error = "configuration") <=> TopicMissing
    /\ AuditPublishes # {} => AuditOn
    /\ ReportPublishes # {} => ReportOn
    /\ (pc = "done" /\ ReportOn) => ReportPublishes # {}
    /\ (pc = "done" /\ AuditOn /\ days_until_expiry # <<>>
          /\ env["daysThreshold"] = Unset) => AuditPublishes # {}
    /\ (env["doAudit"] = Unset /\ env["doReport"] = Unset) =>
         /\ Publishes = {}
         /\ error # "configuration"
         /\ pc # "config" => (sns_audit_arn = Unbound /\ sns_report_arn = Unbound)

\* both flags unset, no topic ARN set, certificates listed, run ended in
\* success
C8_Witness ==
    /\ env["doAudit"] = Unset /\ env["doReport"] = Unset
    /\ env["snsAuditArn"] = Unset /\ env["snsReportArn"] = Unset
    /\ pc = "done"
    /\ days_until_expiry # <<>>

\* the place of a call in the order of a run
C9_Rank(i) ==
    IF IsList(i) THEN 1
    ELSE IF IsDescribe(i) THEN 2
    ELSE IF IsAuditPublish(i) THEN 3
    ELSE IF IsReportPublish(i) THEN 4
    ELSE 0

\* C9: the calls of a run are, in this order: at most one list_certificates,
\* then describe_certificate calls that follow the listing one by one, then
\* at most one audit publish, then at most one report publish.  A publish
\* comes only after every certificate-authority call has been made and has
\* returned, and once listing is over there is exactly one describe per
\* listed certificate.
C9_CallOrder ==
    /\ \A i \in Positions : C9_Rank(i) # 0
    /\ \A i, j \in Positions : i < j => C9_Rank(i) <= C9_Rank(j)
    /\ Cardinality(Lists) <= 1
    /\ Cardinality(AuditPublishes) <= 1
    /\ Cardinality(ReportPublishes) <= 1
    /\ Cardinality(Publishes) \in {0, 1, 2}
    /\ Cardinality(Describes) <= Len(cert_summaries)
    /\ \A i \in Describes : calls[i].call.arn = cert_summaries[i - 1]
    /\ Publishes # {} => ListingDone
    /\ pc \in {"now", "calc", "audit", "report", "done"} => ListingDone

\* list, two describes, the audit publish and the report publish
C9_Witness ==
    /\ pc = "done"
    /\ Len(cert_summaries) = 2
    /\ Len(calls) = 5
    /\ IsAuditPublish(4) /\ IsReportPublish(5)

\* daysThreshold is set to a string that is no integer literal
C10_Unparsable ==
    /\ env["daysThreshold"] # Unset
    /\ \/ env["daysThreshold"] = <<>>
       \/ \E i \in 1..Len(env["daysThreshold"]) :
            env["daysThreshold"][i] \notin
              {"0", "1", "2", "3", "4", "5", "6", "7", "8", "9",
               "+", "-", "_", " "}

\* C10: a daysThreshold that int() refuses is not rejected when the settings
\* are read.  With audit enabled and at least one certificate listed, a run
\* that gets through listing fails with the audit error, after every
\* certificate-authority call and without any publish, the report publish
\* included.  With audit disabled, or with no certificate listed, the
\* threshold raises nothing: the run ends in success unless the report
\* publish itself fails.
C10_UnparsableThreshold ==
    C10_Unparsable =>
        /\ (error = "configuration") => TopicMissing
        /\ (pc \notin {"config", "list", "describe"} /\ error \notin {"configuration", "listing"}) =>
             ListingDone
        /\ (AuditOn /\ cert_summaries # <<>> /\ AuditOver) =>
             /\ pc = "failed" /\ error = "audit" /\ cause = "ValueError"
             /\ ListingDone
             /\ Publishes = {}
        /\ (~AuditOn \/ (cert_summaries = <<>> /\ ListingDone)) =>
             /\ error # "audit"
             /\ AuditPublishes = {}
             /\ Ended =>
                  \/ pc = "done" /\ error = "none"
                  \/ error \in {"configuration", "listing"}
                  \/ error = "report" /\ cause = "notification"

\* audit and report enabled, an unparsable threshold, two certificates: the
\* audit error
C10_Witness ==
    /\ C10_Unparsable /\ AuditOn /\ ReportOn
    /\ Len(days_until_expiry) = 2
    /\ error = "audit"

\* audit enabled, an unparsable threshold, no certificate: success
C10_WitnessNoCertificates ==
    /\ C10_Unparsable /\ AuditOn
    /\ cert_summaries = <<>> /\ pc = "done"

====
